---- MODULE Spec2Model ----
(***************************************************************************)
(* Model of modules/builder/src/builders/helpers/xviz-trajectory-helper.js *)
(*                                                                         *)
(* Numbers.  A JavaScript number is a record [nan, v]: NaN is the record   *)
(* with nan = TRUE, every other number is an integer v.  Arithmetic is     *)
(* NaN-propagating exactly as IEEE arithmetic is (NaN * 0 = NaN).          *)
(*                                                                         *)
(* Angles.  roll, pitch and yaw are counted in quarter turns (k stands     *)
(* for k * PI/2), so that Math.sin and Math.cos are the exact integers     *)
(* 0, 1, -1 and every matrix of the model is exact.                        *)
(*                                                                         *)
(* Geodesy.  Longitude and latitude are counted in the unit whose arc is   *)
(* one metre at the place of the scene (a local chart), so that            *)
(* addMetersToLngLat is an addition and distance * sin/cos(bearing) are    *)
(* the east and north differences of the two coordinates.                  *)
(*                                                                         *)
(* Indices.  A JavaScript array a of length n is the sequence of length n  *)
(* whose element k+1 is a[k].                                              *)
(***************************************************************************)
EXTENDS Integers, Sequences, FiniteSets, TLC

VARIABLES poses, objectFrames, targetObject, vertices, call, inputs0

vars == <<poses, objectFrames, targetObject, vertices, call, inputs0>>

(***************************************************************************)
(* Bounds of the model                                                     *)
(***************************************************************************)
\* the largest number of frames of a poses / objectFrames collection
MaxFrames == 3

(***************************************************************************)
(* JavaScript numbers                                                      *)
(***************************************************************************)
N(k) == [nan |-> FALSE, v |-> k]

NaN == [nan |-> TRUE, v |-> 0]

isNaN(a) == a.nan

Add(a, b) == IF a.nan \/ b.nan THEN NaN ELSE N(a.v + b.v)

Sub(a, b) == IF a.nan \/ b.nan THEN NaN ELSE N(a.v - b.v)

Mul(a, b) == IF a.nan \/ b.nan THEN NaN ELSE N(a.v * b.v)

Neg(a) == IF a.nan THEN NaN ELSE N(0 - a.v)

\* `a ?? 0', which keeps NaN: a variant of OrZero
OrZeroNullish(a) == a

\* `a || 0': every falsy number (0 and NaN) gives 0
OrZero(a) == IF a.nan \/ a.v = 0 THEN N(0) ELSE a

Min(a, b) == IF a < b THEN a ELSE b

Max(a, b) == IF a > b THEN a ELSE b

\* Math.sin and Math.cos of k quarter turns
Sin(k) == N(<<0, 1, 0, -1>>[(k % 4) + 1])

Cos(k) == N(<<1, 0, -1, 0>>[(k % 4) + 1])

(***************************************************************************)
(* math.gl: Vector3, Matrix4 (affine: rows r, translation column t, last   *)
(* row 0 0 0 1) and Pose                                                   *)
(***************************************************************************)
Vec3HasNaN(p) == \E k \in 1..3 : isNaN(p[k])

Dot3(a, b) == Add(Add(Mul(a[1], b[1]), Mul(a[2], b[2])), Mul(a[3], b[3]))

Col(r, j) == <<r[1][j], r[2][j], r[3][j]>>

MatVec(r, p) == <<Dot3(r[1], p), Dot3(r[2], p), Dot3(r[3], p)>>

VecAdd(a, b) == <<Add(a[1], b[1]), Add(a[2], b[2]), Add(a[3], b[3])>>

VecNeg(a) == <<Neg(a[1]), Neg(a[2]), Neg(a[3])>>

Transpose(r) == <<Col(r, 1), Col(r, 2), Col(r, 3)>>

MatMul(a, b) == [i \in 1..3 |-> [j \in 1..3 |-> Dot3(a[i], Col(b, j))]]

MatHasNaN(m) == (\E i \in 1..3 : Vec3HasNaN(m.r[i])) \/ Vec3HasNaN(m.t)

\* Matrix4.transformVector(p) on a 3-element vector: vec3.transformMat4, the
\* vector taken as a point (w = 1), so the translation is applied
transformVector(m, p) == VecAdd(MatVec(m.r, p), m.t)

\* Matrix4.multiplyRight
multiplyRight(a, b) == [r |-> MatMul(a.r, b.r), t |-> VecAdd(MatVec(a.r, b.t), a.t)]

\* Matrix4.invert(): mat4.invert leaves the matrix as it is when its
\* determinant is falsy (0 or NaN); the rotation part of a pose matrix is
\* orthogonal with determinant 1, so the inverse is (R^T, -R^T t)
invert(m) ==
  IF MatHasNaN(m) THEN m
  ELSE [r |-> Transpose(m.r), t |-> VecNeg(MatVec(Transpose(m.r), m.t))]

\* new Pose({x, y, z, roll, pitch, yaw}): the six fields are copied
Pose(p) == [x |-> p.x, y |-> p.y, z |-> p.z,
            roll |-> p.roll, pitch |-> p.pitch, yaw |-> p.yaw]

\* Pose.getTransformationMatrix(): pose-relative to world coordinates
getTransformationMatrix(p) ==
  LET sr == Sin(p.roll)
      sp == Sin(p.pitch)
      sw == Sin(p.yaw)
      cr == Cos(p.roll)
      cp == Cos(p.pitch)
      cw == Cos(p.yaw)
  IN [r |-> << <<Mul(cw, cp),
                 Add(Neg(Mul(sw, cr)), Mul(Mul(cw, sp), sr)),
                 Add(Mul(sw, sr), Mul(Mul(cw, sp), cr))>>,
               <<Mul(sw, cp),
                 Add(Mul(cw, cr), Mul(Mul(sw, sp), sr)),
                 Add(Neg(Mul(cw, sr)), Mul(Mul(sw, sp), cr))>>,
               <<Neg(sp), Mul(cp, sr), Mul(cp, cr)>> >>,
      t |-> <<p.x, p.y, p.z>>]

\* this.getTransformationMatrixFromPose(pose):
\* new Matrix4().multiplyRight(this matrix).multiplyRight(pose matrix inverted)
getTransformationMatrixFromPose(this, pose) ==
  multiplyRight(getTransformationMatrix(this), invert(getTransformationMatrix(pose)))

(***************************************************************************)
(* getGeospatialVector                                                     *)
(***************************************************************************)
\* viewport-mercator-project addMetersToLngLat(lngLatZ, xyz)
addMetersToLngLat(lngLatZ, xyz) ==
  <<Add(lngLatZ[1], xyz[1]), Add(lngLatZ[2], xyz[2]), Add(lngLatZ[3], xyz[3])>>

getGeospatialVector(from, to) ==
  LET fromCoord == addMetersToLngLat(
                     <<OrZero(from.longitude), OrZero(from.latitude), OrZero(from.altitude)>>,
                     <<OrZero(from.x), OrZero(from.y), OrZero(from.z)>>)
      toCoord == addMetersToLngLat(
                   <<OrZero(to.longitude), OrZero(to.latitude), OrZero(to.altitude)>>,
                   <<OrZero(to.x), OrZero(to.y), OrZero(to.z)>>)
      \* distInMeters * Math.sin(bearingInRadians), the east difference
      east == Sub(toCoord[1], fromCoord[1])
      \* distInMeters * Math.cos(bearingInRadians), the north difference
      north == Sub(toCoord[2], fromCoord[2])
      diffZ == Sub(toCoord[3], fromCoord[3])
  IN <<east, north, diffZ>>

(***************************************************************************)
(* Outcome of a call: a returned value or a thrown TypeError               *)
(***************************************************************************)
Return(v) == [ok |-> TRUE, value |-> v]

Throw == [ok |-> FALSE, value |-> <<>>]

\* a[i] of a JavaScript array: is there an element at index i
HasIndex(a, i) == i >= 0 /\ i < Len(a)

At(a, i) == a[i + 1]

(***************************************************************************)
(* getPoseTrajectory                                                       *)
(***************************************************************************)
\* a variant of iterationLimit without Math.min
iterationLimitUnclipped(ps, endFrame) == endFrame

\* Math.min(endFrame, poses.length)
iterationLimit(ps, endFrame) == Min(endFrame, Len(ps))

\* the indices i of the loop `for (i = startFrame; i < iterationLimit; i++)'
PoseLoopFrames(ps, startFrame, endFrame) ==
  LET limit == iterationLimit(ps, endFrame)
  IN [k \in 1..Max(0, limit - startFrame) |-> startFrame + k - 1]

getPoseTrajectory(ps, startFrame, endFrame) ==
  LET frames == PoseLoopFrames(ps, startFrame, endFrame)
  IN IF \E k \in 1..Len(frames) : ~HasIndex(ps, frames[k])
     THEN Throw      \* poses[i] is undefined: poses[i].pose throws
     ELSE IF ~HasIndex(ps, startFrame)
     THEN Throw      \* poses[startFrame].pose throws
     ELSE LET positions == [k \in 1..Len(frames) |-> At(ps, frames[k]).pose]
              startPose == At(ps, startFrame).pose
              transformMatrix == invert(getTransformationMatrix(Pose(startPose)))
          IN Return([k \in 1..Len(positions) |->
                       transformVector(transformMatrix,
                                       getGeospatialVector(startPose, positions[k]))])

(***************************************************************************)
(* getRelativeCoordinates                                                  *)
(***************************************************************************)
getRelativeCoordinates(vs, basePose) ==
  LET transformMatrix == getTransformationMatrix(Pose(basePose))
  IN Return([k \in 1..Len(vs) |-> transformVector(transformMatrix, vs[k])])

(***************************************************************************)
(* getGeospatialToPoseTransform                                            *)
(***************************************************************************)
getGeospatialToPoseTransform(from, to) ==
  LET offset == getGeospatialVector(from, to)
      fromPose == Pose([x |-> N(0), y |-> N(0), z |-> N(0),
                        pitch |-> from.pitch, roll |-> from.roll, yaw |-> from.yaw])
      toPose == Pose([x |-> offset[1], y |-> offset[2], z |-> offset[3],
                      pitch |-> to.pitch, roll |-> to.roll, yaw |-> to.yaw])
  IN getTransformationMatrixFromPose(fromPose, toPose)

(***************************************************************************)
(* getFrameObjects and getObjectMotions                                    *)
(*                                                                         *)
(* objectFrames is [kind, elems, entries]: an Array holds its elements in  *)
(* elems, a Map (and a plain object, kind "Object") its entries in the     *)
(* function entries, keyed by frame number.  A JavaScript value that may   *)
(* be undefined or null is [tag, val].                                     *)
(***************************************************************************)
Undefined == [tag |-> "undefined", val |-> <<>>]

Null == [tag |-> "null", val |-> <<>>]

Value(v) == [tag |-> "value", val |-> v]

\* a variant of MapGet that gives null for a missing key
MapGetOrNull(m, key) == IF key \in DOMAIN m THEN Value(m[key]) ELSE Null

\* Map.prototype.get: undefined for a missing key
MapGet(m, key) == IF key \in DOMAIN m THEN Value(m[key]) ELSE Undefined

\* frames[frameNumber] of an Array
ArrayGet(a, i) == IF HasIndex(a, i) THEN Value(At(a, i)) ELSE Undefined

\* a variant of getFrameObjects without the Map branch
getFrameObjectsArrayOnly(frames, frameNumber) ==
  IF frames.kind = "Array" THEN ArrayGet(frames.elems, frameNumber)
  ELSE Null

getFrameObjects(frames, frameNumber) ==
  IF frames.kind = "Map" THEN MapGet(frames.entries, frameNumber)
  ELSE IF frames.kind = "Array" THEN ArrayGet(frames.elems, frameNumber)
  ELSE Null

\* objects.find(obj => obj.id === id): the first such element, or undefined
RECURSIVE find(_, _)
find(objects, id) ==
  IF objects = <<>> THEN Undefined
  ELSE IF Head(objects).id = id THEN Value(Head(objects))
  ELSE find(Tail(objects), id)

\* a variant of MotionFrames without Math.max(targetObject.firstFrame, startFrame)
MotionFramesNoLifetimeStart(target, startFrame, endFrame) ==
  LET e == Min(target.lastFrame, endFrame)
  IN [k \in 1..Max(0, e - startFrame) |-> startFrame + k - 1]

\* the frames i of the loop of getObjectMotions, startFrame and endFrame clipped
\* to the lifetime of targetObject
MotionFrames(target, startFrame, endFrame) ==
  LET s == Max(target.firstFrame, startFrame)
      e == Min(target.lastFrame, endFrame)
  IN [k \in 1..Max(0, e - s) |-> s + k - 1]

\* a variant of getObjectMotions that skips a frame without the object
getObjectMotionsSkipMissing(target, frames, startFrame, endFrame) ==
  LET fs == MotionFrames(target, startFrame, endFrame)
      present == SelectSeq(fs, LAMBDA f :
                   /\ getFrameObjects(frames, f).tag = "value"
                   /\ find(getFrameObjects(frames, f).val, target.id).tag = "value")
  IN Return([k \in 1..Len(present) |->
               find(getFrameObjects(frames, present[k]).val, target.id)])

\* motions.push(object) for every frame, the object found or undefined;
\* objects.find throws when objects is undefined or null
getObjectMotions(target, frames, startFrame, endFrame) ==
  LET fs == MotionFrames(target, startFrame, endFrame)
  IN IF \E k \in 1..Len(fs) : getFrameObjects(frames, fs[k]).tag # "value"
     THEN Throw
     ELSE Return([k \in 1..Len(fs) |->
                    find(getFrameObjects(frames, fs[k]).val, target.id)])

(***************************************************************************)
(* getObjectTrajectory                                                     *)
(***************************************************************************)
\* the pose frame of step i (0-based) of the loop: poseFrames[startFrame + i]
StepPoseFrame(target, startFrame, i) == startFrame + i

getObjectTrajectory(target, frames, poseFrames, startFrame, endFrame) ==
  IF ~HasIndex(poseFrames, startFrame)
  THEN Throw         \* poseFrames[startFrame].pose throws
  ELSE
    LET startVehiclePose == At(poseFrames, startFrame).pose
        limit == Min(endFrame, target.lastFrame)
        motions == getObjectMotions(target, frames, startFrame, limit)
    IN IF ~motions.ok THEN Throw
       ELSE IF \E k \in 1..Len(motions.value) :
                 \/ ~HasIndex(poseFrames, StepPoseFrame(target, startFrame, k - 1))
                 \/ motions.value[k].tag # "value"   \* step.x of undefined throws
       THEN Throw
       ELSE Return([k \in 1..Len(motions.value) |->
              LET step == motions.value[k].val
                  currVehiclePose ==
                    At(poseFrames, StepPoseFrame(target, startFrame, k - 1)).pose
                  transformMatrix ==
                    getGeospatialToPoseTransform(currVehiclePose, startVehiclePose)
              IN transformVector(transformMatrix, <<step.x, step.y, step.z>>)])

(***************************************************************************)
(* Inputs of the model                                                     *)
(***************************************************************************)
MkPose(x, y, z, longitude, latitude, altitude, roll, pitch, yaw) ==
  [x |-> x, y |-> y, z |-> z,
   longitude |-> longitude, latitude |-> latitude, altitude |-> altitude,
   roll |-> roll, pitch |-> pitch, yaw |-> yaw]

Frame(p) == [pose |-> p]

SeqsUpTo(S, n) == UNION {[1..k -> S] : k \in 0..n}

Zero3 == <<N(0), N(0), N(0)>>

\* poses of a platform on the move: a local offset, an anchor, a heading
TrackPoses ==
  {MkPose(x, N(0), z, lon, N(0), N(0), 0, 0, yaw) :
     x \in {N(0), N(1)}, z \in {N(0)}, lon \in {N(0), N(2)}, yaw \in {0, 1}}

\* poses with every orientation of the model and an anchor east or north
TurnedPoses ==
  {MkPose(N(0), N(0), N(0), lon, lat, N(0), roll, pitch, yaw) :
     lon \in {N(0), N(1)}, lat \in {N(0)},
     roll \in {0, 1}, pitch \in {0, 3}, yaw \in {0, 1, 2}}

Points == {Zero3, <<N(1), N(0), N(0)>>, <<N(0), N(2), N(1)>>}

\* the six numeric fields getGeospatialVector reads
GeoFields == {"longitude", "latitude", "altitude", "x", "y", "z"}

\* poses one field of which may be NaN
NaNPoses ==
  LET base == {MkPose(x, N(0), N(0), lon, N(1), N(0), 0, 0, yaw) :
                 x \in {N(0), N(1)}, lon \in {N(0), N(2)}, yaw \in {0, 1}}
  IN base \cup {[b EXCEPT ![f] = NaN] : b \in base, f \in GeoFields}

Obj(id, x) == [id |-> id, x |-> N(x), y |-> N(0), z |-> N(0)]

\* the object lists of a frame: without the target (id 1), with it, with it
\* behind another object
ObjectLists == {<<>>, <<Obj(1, 1)>>, <<Obj(2, 0), Obj(1, 2)>>}

ArrayFrames(elems) == [kind |-> "Array", elems |-> elems, entries |-> <<>>]

MapFrames(entries) == [kind |-> "Map", elems |-> <<>>, entries |-> entries]

ObjectFrames(entries) == [kind |-> "Object", elems |-> <<>>, entries |-> entries]

NoFrames == ArrayFrames(<<>>)

\* the Map with entry k -> array[k] for every index k of the Array
ToMap(frames) ==
  MapFrames([k \in 0..(Len(frames.elems) - 1) |-> At(frames.elems, k)])

FrameStores ==
  {ArrayFrames(a) : a \in SeqsUpTo(ObjectLists, MaxFrames)}
    \cup {MapFrames(m) : m \in UNION {[K -> ObjectLists] : K \in SUBSET (0..(MaxFrames - 1))}}
    \cup {ObjectFrames([k \in 0..(MaxFrames - 1) |-> <<Obj(1, 1)>>])}

Target(first, last) == [id |-> 1, firstFrame |-> first, lastFrame |-> last]

\* firstFrame is the first frame of the object, lastFrame the one after its last
LiveTargets ==
  {t \in {Target(f, l) : f \in 0..MaxFrames, l \in 0..MaxFrames} :
     t.firstFrame <= t.lastFrame}

\* the platform moving east one unit a frame and turning a quarter a frame
PlatformTrack(n) ==
  [k \in 1..n |-> Frame(MkPose(N(0), N(0), N(0), N(k - 1), N(0), N(0), 0, 0, (k - 1) % 4))]

StartFrames == 0..MaxFrames

EndFrames == 0..(MaxFrames + 1)

FrameNumbers == (0 - 1)..MaxFrames

(***************************************************************************)
(* The calls.  No function of the file assigns to a field or an element of *)
(* an argument: the arrays it fills (positions, motions, vertices) and the *)
(* matrix it inverts in place are its own, and the parameters it assigns   *)
(* (basePose, startFrame, endFrame) are locals.                            *)
(***************************************************************************)
Inputs ==
  [poses |-> poses, objectFrames |-> objectFrames,
   targetObject |-> targetObject, vertices |-> vertices]

NoCall ==
  [op |-> "none", startFrame |-> 0, endFrame |-> 0, from |-> 0, to |-> 0,
   frameNumber |-> 0, frames |-> <<>>, ret |-> Return(<<>>)]

InitWith(ps, frames, target, vs) ==
  /\ poses = ps
  /\ objectFrames = frames
  /\ targetObject = target
  /\ vertices = vs
  /\ call = NoCall
  /\ inputs0 = [poses |-> ps, objectFrames |-> frames,
                targetObject |-> target, vertices |-> vs]

CallGetPoseTrajectory(s, e) ==
  /\ call' = [NoCall EXCEPT !.op = "getPoseTrajectory", !.startFrame = s,
                !.endFrame = e, !.frames = PoseLoopFrames(poses, s, e),
                !.ret = getPoseTrajectory(poses, s, e)]
  /\ UNCHANGED <<poses, objectFrames, targetObject, vertices, inputs0>>

CallGetGeospatialVector(f, t) ==
  /\ HasIndex(poses, f) /\ HasIndex(poses, t)
  /\ call' = [NoCall EXCEPT !.op = "getGeospatialVector", !.from = f, !.to = t,
                !.ret = Return(getGeospatialVector(At(poses, f).pose, At(poses, t).pose))]
  /\ UNCHANGED <<poses, objectFrames, targetObject, vertices, inputs0>>

\* getGeospatialToPoseTransform(from, to).transformVector(vertices[0])
CallGetGeospatialToPoseTransform(f, t) ==
  /\ HasIndex(poses, f) /\ HasIndex(poses, t) /\ HasIndex(vertices, 0)
  /\ call' = [NoCall EXCEPT !.op = "getGeospatialToPoseTransform", !.from = f, !.to = t,
                !.ret = Return(transformVector(
                          getGeospatialToPoseTransform(At(poses, f).pose, At(poses, t).pose),
                          At(vertices, 0)))]
  /\ UNCHANGED <<poses, objectFrames, targetObject, vertices, inputs0>>

\* the point the last transform returned, through the transform of the opposite
\* direction: getGeospatialToPoseTransform(to, from).transformVector(ret)
CallTransformBack ==
  /\ call.op = "getGeospatialToPoseTransform"
  /\ call' = [call EXCEPT !.op = "roundTrip",
                !.ret = Return(transformVector(
                          getGeospatialToPoseTransform(At(poses, call.to).pose,
                                                       At(poses, call.from).pose),
                          call.ret.value))]
  /\ UNCHANGED <<poses, objectFrames, targetObject, vertices, inputs0>>

\* a variant of CallGetRelativeCoordinates that transforms the vertices in place
CallGetRelativeCoordinatesInPlace(b) ==
  /\ HasIndex(poses, b)
  /\ call' = [NoCall EXCEPT !.op = "getRelativeCoordinates", !.from = b,
                !.ret = getRelativeCoordinates(vertices, At(poses, b).pose)]
  /\ vertices' = getRelativeCoordinates(vertices, At(poses, b).pose).value
  /\ UNCHANGED <<poses, objectFrames, targetObject, inputs0>>

CallGetRelativeCoordinates(b) ==
  /\ HasIndex(poses, b)
  /\ call' = [NoCall EXCEPT !.op = "getRelativeCoordinates", !.from = b,
                !.ret = getRelativeCoordinates(vertices, At(poses, b).pose)]
  /\ UNCHANGED <<poses, objectFrames, targetObject, vertices, inputs0>>

CallGetObjectTrajectory(s, e) ==
  /\ call' = [NoCall EXCEPT !.op = "getObjectTrajectory", !.startFrame = s,
                !.endFrame = e,
                !.frames = MotionFrames(targetObject, s, Min(e, targetObject.lastFrame)),
                !.ret = getObjectTrajectory(targetObject, objectFrames, poses, s, e)]
  /\ UNCHANGED <<poses, objectFrames, targetObject, vertices, inputs0>>

CallGetFrameObjects(n) ==
  /\ call' = [NoCall EXCEPT !.op = "getFrameObjects", !.frameNumber = n,
                !.ret = Return(getFrameObjects(objectFrames, n))]
  /\ UNCHANGED <<poses, objectFrames, targetObject, vertices, inputs0>>

(***************************************************************************)
(* Specifications                                                          *)
(***************************************************************************)
\* getPoseTrajectory over every track of at most MaxFrames poses
InitPose ==
  \E ps \in SeqsUpTo({Frame(p) : p \in TrackPoses}, MaxFrames) :
    InitWith(ps, NoFrames, Target(0, 0), <<>>)

NextPose == call.op = "none" /\ \E s \in StartFrames, e \in EndFrames : CallGetPoseTrajectory(s, e)

SpecPose == InitPose /\ [][NextPose]_vars

\* the transform between two poses and back
InitTransform ==
  \E a \in TurnedPoses, b \in TurnedPoses, p \in Points :
    InitWith(<<Frame(a), Frame(b)>>, NoFrames, Target(0, 0), <<p>>)

NextTransform ==
  \/ call.op = "none" /\ \E f \in 0..1, t \in 0..1 : CallGetGeospatialToPoseTransform(f, t)
  \/ CallTransformBack

SpecTransform == InitTransform /\ [][NextTransform]_vars

\* getGeospatialVector and getPoseTrajectory over poses with a NaN field
InitNaN ==
  \E a \in NaNPoses, b \in NaNPoses :
    InitWith(<<Frame(a), Frame(b)>>, NoFrames, Target(0, 0), <<>>)

NextNaN ==
  \/ call.op = "none" /\ \E f \in 0..1, t \in 0..1 : CallGetGeospatialVector(f, t)
  \/ call.op = "none" /\ \E s \in 0..1, e \in 1..2 : CallGetPoseTrajectory(s, e)

SpecNaN == InitNaN /\ [][NextNaN]_vars

\* getObjectTrajectory and getFrameObjects over every frame store
InitObject ==
  \E n \in {MaxFrames - 1, MaxFrames}, frames \in FrameStores, target \in LiveTargets :
    InitWith(PlatformTrack(n), frames, target, <<>>)

NextObject ==
  \/ call.op = "none" /\ \E s \in StartFrames, e \in EndFrames : CallGetObjectTrajectory(s, e)
  \/ call.op = "none" /\ \E n \in FrameNumbers : CallGetFrameObjects(n)

SpecObject == InitObject /\ [][NextObject]_vars

\* every function of the file, called in any order over the same inputs
Init ==
  \E a \in {p \in TrackPoses : p.x = N(1) /\ p.yaw = 0},
     b \in {p \in TrackPoses : p.x = N(0) /\ p.yaw = 1},
     frames \in {ArrayFrames(<<<<Obj(1, 1)>>, <<Obj(2, 0), Obj(1, 2)>>>>),
                 MapFrames([k \in {0, 1} |-> <<Obj(1, 1)>>]),
                 MapFrames([k \in {1} |-> <<Obj(1, 2)>>])},
     target \in {Target(0, 2), Target(1, 2)},
     vs \in {<<<<N(1), N(0), N(0)>>>>, <<<<N(0), N(2), N(1)>>, <<N(1), N(0), N(0)>>>>} :
    InitWith(<<Frame(a), Frame(b)>>, frames, target, vs)

Next ==
  \/ \E s \in 0..2, e \in 0..3 : CallGetPoseTrajectory(s, e)
  \/ \E s \in 0..2, e \in 0..3 : CallGetObjectTrajectory(s, e)
  \/ \E f \in 0..1, t \in 0..1 : CallGetGeospatialVector(f, t)
  \/ \E f \in 0..1, t \in 0..1 : CallGetGeospatialToPoseTransform(f, t)
  \/ \E b \in 0..1 : CallGetRelativeCoordinates(b)
  \/ \E n \in 0..2 : CallGetFrameObjects(n)

Spec == Init /\ [][Next]_vars

(***************************************************************************)
(* Claims                                                                  *)
(***************************************************************************)
\* C1: getPoseTrajectory over the one frame s (endFrame = s + 1, s a valid
\* index) returns exactly one point, and that point is (0, 0, 0), whatever
\* the pose of frame s is.
C1_OwnStartIsOrigin ==
  (/\ call.op = "getPoseTrajectory"
   /\ HasIndex(poses, call.startFrame)
   /\ call.endFrame = call.startFrame + 1)
    => call.ret = Return(<<Zero3>>)

\* C2: a point taken through getGeospatialToPoseTransform(A, B) and then
\* through getGeospatialToPoseTransform(B, A) is the point itself.
C2_RoundTripIsIdentity ==
  call.op = "roundTrip" => call.ret = Return(At(vertices, 0))

\* the record of the target in frame f, if the frame has one
TargetRecord(f) ==
  IF getFrameObjects(objectFrames, f).tag = "value"
  THEN find(getFrameObjects(objectFrames, f).val, targetObject.id)
  ELSE Undefined

\* the point of a record seen from the platform pose of frame f, in the
\* coordinates of the platform pose of frame call.startFrame
SeenFrom(f, record) ==
  transformVector(
    getGeospatialToPoseTransform(At(poses, f).pose, At(poses, call.startFrame).pose),
    <<record.x, record.y, record.z>>)

\* C3: the record getObjectTrajectory transforms at step i is the record of
\* the target in frame startFrame + i, the frame of the platform pose of
\* that step.
C3_StepRecordIsOfPoseFrame ==
  (call.op = "getObjectTrajectory" /\ call.ret.ok)
    => \A k \in 1..Len(call.ret.value) :
         /\ call.frames[k] = call.startFrame + k - 1
         /\ TargetRecord(call.startFrame + k - 1).tag = "value"
         /\ call.ret.value[k] =
              SeenFrom(call.startFrame + k - 1,
                       TargetRecord(call.startFrame + k - 1).val)

ClippedStart == Max(call.startFrame, targetObject.firstFrame)

ClippedEnd == Min(call.endFrame, targetObject.lastFrame)

\* C4: a trajectory getObjectTrajectory returns has one point for every
\* frame of max(startFrame, firstFrame) .. min(endFrame, lastFrame) - 1 and
\* no other, in ascending frame order, each from the record of that frame.
C4_LifetimeClipping ==
  (call.op = "getObjectTrajectory" /\ call.ret.ok)
    => /\ Len(call.ret.value) = Max(0, ClippedEnd - ClippedStart)
       /\ Len(call.frames) = Len(call.ret.value)
       /\ \A k \in 1..Len(call.frames) :
            /\ call.frames[k] = ClippedStart + k - 1
            /\ targetObject.firstFrame <= call.frames[k]
            /\ call.frames[k] < targetObject.lastFrame
            /\ TargetRecord(call.frames[k]).tag = "value"
            /\ call.ret.value[k] =
                 SeenFrom(call.startFrame + k - 1, TargetRecord(call.frames[k]).val)

C4_Witness ==
  /\ call.op = "getObjectTrajectory" /\ call.ret.ok
  /\ call.startFrame < targetObject.firstFrame
  /\ call.endFrame > targetObject.lastFrame
  /\ Len(call.ret.value) >= 2

\* C5: with endFrame beyond the end of poses, getPoseTrajectory has the
\* outcome it has with endFrame = poses.length, and its loop reads no
\* poses[i] with i >= poses.length.
C5_EndFrameClipped ==
  (call.op = "getPoseTrajectory" /\ call.endFrame > Len(poses))
    => /\ call.ret = getPoseTrajectory(poses, call.startFrame, Len(poses))
       /\ \A k \in 1..Len(call.frames) : call.frames[k] < Len(poses)

C5_Witness ==
  /\ call.op = "getPoseTrajectory"
  /\ call.endFrame > Len(poses)
  /\ call.ret.ok
  /\ Len(call.ret.value) >= 2

\* C6: over an Array and over the Map with the same entries, getFrameObjects
\* returns the same value for every frame number and getObjectTrajectory has
\* the same outcome.
C6_ArrayAsMap ==
  objectFrames.kind = "Array"
    => /\ call.op = "getFrameObjects"
            => call.ret = Return(getFrameObjects(ToMap(objectFrames), call.frameNumber))
       /\ call.op = "getObjectTrajectory"
            => call.ret = getObjectTrajectory(targetObject, ToMap(objectFrames), poses,
                                              call.startFrame, call.endFrame)

C6_Witness ==
  /\ objectFrames.kind = "Array"
  /\ call.op = "getFrameObjects"
  /\ Len(objectFrames.elems) >= 1
  /\ call.frameNumber >= Len(objectFrames.elems)
  /\ call.ret = Return(Undefined)

\* is there an entry for frame f in objectFrames
HasEntry(f) ==
  IF objectFrames.kind = "Array" THEN HasIndex(objectFrames.elems, f)
  ELSE f \in DOMAIN objectFrames.entries

\* has the object list of frame f a record with the id of the target
HasRecord(f) ==
  LET list == IF objectFrames.kind = "Array" THEN At(objectFrames.elems, f)
              ELSE objectFrames.entries[f]
  IN \E k \in 1..Len(list) : list[k].id = targetObject.id

\* C7: when a frame of max(startFrame, firstFrame) .. min(endFrame,
\* lastFrame) - 1 has no entry in objectFrames, or an object list without a
\* record of the target, getObjectTrajectory throws and returns no
\* trajectory.
C7_MissingObjectThrows ==
  (/\ call.op = "getObjectTrajectory"
   /\ \E f \in ClippedStart..(ClippedEnd - 1) : ~HasEntry(f) \/ ~HasRecord(f))
    => ~call.ret.ok

\* every frame of the range has an entry, one of them lacks the record, and
\* every platform pose the call reads is there
C7_Witness ==
  /\ call.op = "getObjectTrajectory"
  /\ objectFrames.kind \in {"Array", "Map"}
  /\ ClippedEnd - ClippedStart >= 2
  /\ \A f \in ClippedStart..(ClippedEnd - 1) : HasEntry(f)
  /\ \E f \in ClippedStart..(ClippedEnd - 1) : ~HasRecord(f)
  /\ \E f \in ClippedStart..(ClippedEnd - 1) : HasRecord(f)
  /\ HasIndex(poses, call.startFrame + (ClippedEnd - ClippedStart) - 1)
  /\ ~call.ret.ok

HasNaNField(p) == \E f \in GeoFields : isNaN(p[f])

\* the pose with 0 in place of every NaN of its six fields
NaNAsZero(p) ==
  [f \in DOMAIN p |-> IF f \in GeoFields THEN (IF p[f].nan THEN N(0) ELSE p[f])
                      ELSE p[f]]

\* C8: a NaN in longitude, latitude, altitude, x, y or z of a pose given to
\* getGeospatialVector, or of a pose of the range of getPoseTrajectory, makes
\* the displacement, or the point of that pose, contain NaN.
C8_NaNPropagates ==
  /\ (call.op = "getGeospatialVector"
        /\ (HasNaNField(At(poses, call.from).pose) \/ HasNaNField(At(poses, call.to).pose)))
       => Vec3HasNaN(call.ret.value)
  /\ (call.op = "getPoseTrajectory" /\ call.ret.ok)
       => \A k \in 1..Len(call.ret.value) :
            HasNaNField(At(poses, call.frames[k]).pose) => Vec3HasNaN(call.ret.value[k])

\* C8, amended: getGeospatialVector takes a NaN in one of the six fields for
\* 0: the displacement is the one of the poses with 0 in its place and holds
\* no NaN; and so does getPoseTrajectory for every pose of its range when x,
\* y and z of the start pose are numbers.
C8_NaNTakenAsZero ==
  /\ call.op = "getGeospatialVector"
       => /\ ~Vec3HasNaN(call.ret.value)
          /\ call.ret.value = getGeospatialVector(NaNAsZero(At(poses, call.from).pose),
                                                  NaNAsZero(At(poses, call.to).pose))
  /\ (/\ call.op = "getPoseTrajectory" /\ call.ret.ok
      /\ ~Vec3HasNaN(<<At(poses, call.startFrame).pose.x,
                       At(poses, call.startFrame).pose.y,
                       At(poses, call.startFrame).pose.z>>))
       => /\ \A k \in 1..Len(call.ret.value) : ~Vec3HasNaN(call.ret.value[k])
          /\ call.ret = getPoseTrajectory([k \in 1..Len(poses) |-> Frame(NaNAsZero(poses[k].pose))],
                                          call.startFrame, call.endFrame)

C8_Witness ==
  /\ call.op = "getPoseTrajectory" /\ call.ret.ok
  /\ call.startFrame = 0 /\ Len(call.ret.value) = 2
  /\ ~HasNaNField(At(poses, 0).pose)
  /\ isNaN(At(poses, 1).pose.x)
  /\ ~Vec3HasNaN(call.ret.value[2])

\* C9: getFrameObjects returns null for a Map without an entry for the frame
\* number, and the stored element for an Array.
C9_NullWithoutEntry ==
  call.op = "getFrameObjects"
    => /\ (objectFrames.kind = "Map" /\ call.frameNumber \notin DOMAIN objectFrames.entries)
            => call.ret = Return(Null)
       /\ (objectFrames.kind = "Array" /\ HasIndex(objectFrames.elems, call.frameNumber))
            => call.ret = Return(Value(At(objectFrames.elems, call.frameNumber)))

\* C9, amended: getFrameObjects returns undefined for a Map without an entry
\* for the frame number (and the entry for a Map with one), the stored
\* element for an Array (undefined beyond its end), and null only for frames
\* that are neither.
C9_UndefinedWithoutEntry ==
  call.op = "getFrameObjects"
    => /\ (objectFrames.kind = "Map" /\ call.frameNumber \notin DOMAIN objectFrames.entries)
            => call.ret = Return(Undefined)
       /\ (objectFrames.kind = "Map" /\ call.frameNumber \in DOMAIN objectFrames.entries)
            => call.ret = Return(Value(objectFrames.entries[call.frameNumber]))
       /\ (objectFrames.kind = "Array" /\ HasIndex(objectFrames.elems, call.frameNumber))
            => call.ret = Return(Value(At(objectFrames.elems, call.frameNumber)))
       /\ (objectFrames.kind = "Array" /\ ~HasIndex(objectFrames.elems, call.frameNumber))
            => call.ret = Return(Undefined)
       /\ objectFrames.kind \notin {"Map", "Array"} => call.ret = Return(Null)

C9_Witness ==
  /\ call.op = "getFrameObjects"
  /\ objectFrames.kind = "Map"
  /\ objectFrames.entries # <<>>
  /\ call.frameNumber \in 0..(MaxFrames - 1)
  /\ call.frameNumber \notin DOMAIN objectFrames.entries
  /\ call.ret = Return(Undefined)

\* the outcome of the call c over the inputs in
OutcomeOver(c, in) ==
  CASE c.op = "getPoseTrajectory" ->
         getPoseTrajectory(in.poses, c.startFrame, c.endFrame)
    [] c.op = "getObjectTrajectory" ->
         getObjectTrajectory(in.targetObject, in.objectFrames, in.poses,
                             c.startFrame, c.endFrame)
    [] c.op = "getGeospatialVector" ->
         Return(getGeospatialVector(At(in.poses, c.from).pose, At(in.poses, c.to).pose))
    [] c.op = "getGeospatialToPoseTransform" ->
         Return(transformVector(
                  getGeospatialToPoseTransform(At(in.poses, c.from).pose,
                                               At(in.poses, c.to).pose),
                  At(in.vertices, 0)))
    [] c.op = "getRelativeCoordinates" ->
         getRelativeCoordinates(in.vertices, At(in.poses, c.from).pose)
    [] c.op = "getFrameObjects" ->
         Return(getFrameObjects(in.objectFrames, c.frameNumber))
    [] OTHER -> c.ret

\* C10: after any sequence of calls, successful or failing, the vertices,
\* poses, objectFrames and targetObject are the ones first passed in, and
\* the outcome of the last call is its outcome over those first inputs.
C10_InputsNeverMutated ==
  /\ Inputs = inputs0
  /\ call.ret = OutcomeOver(call, inputs0)

C10_Witness ==
  /\ call.op = "getRelativeCoordinates"
  /\ call.ret.ok
  /\ call.ret.value # vertices
  /\ Len(vertices) = 2

====
